---- MODULE Spec2Model ----
(***************************************************************************)
(* absh: A/B testing of shell scripts.  The model follows src/main.rs:     *)
(* main's set-up, the optional ignored first run pair, the run loop with   *)
(* its exit test and report gate, run_pair's iteration over the            *)
(* experiments and run_test's steps (warmup, script, status checks,        *)
(* pushes, also_measure commands).  External processes are inputs: every   *)
(* spawn/wait draws its result from a small set.  Time is counted in       *)
(* whole seconds and memory in abstract bytes.                             *)
(***************************************************************************)
EXTENDS Integers, Sequences, FiniteSets, TLC

\* ---------------------------------------------------------------- bounds
\* how many --also-measure specifications may be given
MaxUser == 1
\* largest value of -n
MaxIter == 2
\* run pairs started in one execution (the loop itself is unbounded)
MaxRounds == 3
\* the longest --also-measure argument
MaxSpecLen == 5
\* the width of usize in bits, scaled down
UsizeBits == 3

\* values the external processes can produce, and the values of --max-time
Durations == {2}
MaxTimes == {1}
MaxRssValues == {0, 1}
UserValues == {1}

\* ------------------------------------------------------------ Option<T>
NoneOpt == <<>>
Some(x) == <<x>>
Option(S) == {NoneOpt} \cup {Some(x) : x \in S}

\* ------------------------------------------------------------- integers
RECURSIVE Pow2(_)
Pow2(n) == IF n = 0 THEN 1 ELSE 2 * Pow2(n - 1)

UsizeMax == Pow2(UsizeBits) - 1

\* x >> n
RECURSIVE shr(_, _)
shr(x, n) == IF n = 0 THEN x ELSE shr(x \div 2, n - 1)

\* ------------------------------------------------------------ MeasureKey
WallTime == [tag |-> "WallTime"]
MaxRss == [tag |-> "MaxRss"]
User(n) == [tag |-> "User", u |-> n]

\* 2 + u does not fit usize: a panic where overflow is checked, and the
\* wrapped sum where it is not
index_overflows(k) == k.tag = "User" /\ 2 + k.u > UsizeMax

\* MeasureKey::index, with the sum as the unchecked build computes it
index(k) ==
    IF k.tag = "WallTime" THEN 0
    ELSE IF k.tag = "MaxRss" THEN 1
    ELSE (2 + k.u) % (UsizeMax + 1)

from_index(n) ==
    IF n = 0 THEN WallTime
    ELSE IF n = 1 THEN MaxRss
    ELSE User(n - 2)

\* ------------------------------------------------- experiments, measures
ExperimentName == <<"A", "B", "C", "D", "E">>

\* MeasureMap::new_all_default: one empty sequence per key index
new_all_default(user_measure_count) ==
    [k \in 0 .. (user_measure_count + 1) |-> <<>>]

\* a push that appends the value twice
push_twice(m, key, v) == [m EXCEPT ![index(key)] = Append(Append(@, v), v)]

\* m[key].push(v)
push(m, key, v) == [m EXCEPT ![index(key)] = Append(@, v)]

Experiment(name, user_measure_count) ==
    [name |-> name, measures |-> new_all_default(user_measure_count)]

\* ExperimentMap::default
NoExperiments == [n \in {} |-> Experiment("A", 0)]

\* ExperimentMap::insert
insert(tests, name, t) ==
    [n \in DOMAIN tests \cup {name} |-> IF n = name THEN t ELSE tests[n]]

\* parse_opt_test that does not look at the option
parse_opt_test_always(tests, name, run, user_measure_count) ==
    insert(tests, name, Experiment(name, user_measure_count))

\* parse_opt_test of main
parse_opt_test(tests, name, run, user_measure_count) ==
    IF run # NoneOpt
    THEN insert(tests, name, Experiment(name, user_measure_count))
    ELSE tests

MinOf(S) == CHOOSE x \in S : \A y \in S : x <= y

\* Experiment::runs: the experiment's sample count
runs(t) == MinOf({Len(t.measures[k]) : k \in DOMAIN t.measures})

\* ExperimentMap::keys: the configured names, in the order A .. E
keys(tests) == SelectSeq(ExperimentName, LAMBDA n : n \in DOMAIN tests)

\* an order drawn name by name, so that a name can come twice
draw_with_repeats(s) == [1 .. Len(s) -> {s[j] : j \in 1 .. Len(s)}]

\* the orders indices.shuffle can leave
Shuffles(s) ==
    {p \in [1 .. Len(s) -> {s[j] : j \in 1 .. Len(s)}] :
        \A a, b \in 1 .. Len(s) : a # b => p[a] # p[b]}

\* --------------------------------------------------------- AlsoMeasure
\* a string is the sequence of its characters
Chars == {":", "0", "1", "x"}

\* str::split_once: the parts before and after the first c, if there is one
split_once(s, c) ==
    IF \E j \in 1 .. Len(s) : s[j] = c
    THEN LET j == CHOOSE j \in 1 .. Len(s) :
                     s[j] = c /\ \A k \in 1 .. (j - 1) : s[k] # c
         IN  Some(<<SubSeq(s, 1, j - 1), SubSeq(s, j + 1, Len(s))>>)
    ELSE NoneOpt

Ok(v) == [ok |-> TRUE, value |-> v]
Err(e) == [ok |-> FALSE, value |-> e]

\* from_str that reads every is_size other than "1" as false
from_str_lenient(s) ==
    LET a == split_once(s, ":")
        b == split_once(a[1][2], ":")
        c == split_once(b[1][2], ":")
    IN  IF a = NoneOpt THEN Err(s)
        ELSE IF b = NoneOpt THEN Err(s)
        ELSE IF c = NoneOpt THEN Err(s)
        ELSE Ok([id |-> a[1][1], is_size |-> (b[1][1] = <<"1">>),
                 name |-> c[1][1], cmd |-> c[1][2]])

\* AlsoMeasure::from_str
from_str(s) ==
    LET a == split_once(s, ":")
        b == split_once(a[1][2], ":")
        c == split_once(b[1][2], ":")
    IN  IF a = NoneOpt THEN Err(s)
        ELSE IF b = NoneOpt THEN Err(s)
        ELSE IF c = NoneOpt THEN Err(s)
        ELSE IF b[1][1] = <<"0">>
        THEN Ok([id |-> a[1][1], is_size |-> FALSE,
                 name |-> c[1][1], cmd |-> c[1][2]])
        ELSE IF b[1][1] = <<"1">>
        THEN Ok([id |-> a[1][1], is_size |-> TRUE,
                 name |-> c[1][1], cmd |-> c[1][2]])
        ELSE Err(s)

\* Display of bool, as write!("{}") prints it
fmt_bool(b) ==
    IF b THEN <<"t", "r", "u", "e">> ELSE <<"f", "a", "l", "s", "e">>

\* AlsoMeasure::fmt
fmt(m) ==
    m.id \o <<":">> \o fmt_bool(m.is_size) \o <<":">> \o m.name
        \o <<":">> \o m.cmd

\* the --also-measure of the command lines whose specification is not
\* looked at: "x:0:x:x"
SampleMeasure == from_str(<<"x", ":", "0", ":", "x", ":", "x">>).value

\* ------------------------------------------------------------------ Opts
\* the optional scripts -b .. -e that a command line of the model may give
\* (-a is required); the experiments share no state, so a second one shows
\* what further ones would
OptionalNames == {"B"}

Opts ==
    [scripts : {{"A"} \cup s : s \in SUBSET OptionalNames},
     random_order : BOOLEAN,
     ignore_first : BOOLEAN,
     iterations : Option(0 .. MaxIter),
     mem : BOOLEAN,
     also_measure : {[j \in 1 .. n |-> SampleMeasure] : n \in 0 .. MaxUser},
     max_time : Option(MaxTimes)]

\* the script given for an experiment name, if one is
script(o, name) == IF name \in o.scripts THEN Some(name) ELSE NoneOpt

\* main, lines 245-302: A is inserted, B .. E if their scripts are given
new_experiments(o) ==
    LET c == Len(o.also_measure)
        a == insert(NoExperiments, "A", Experiment("A", c))
        b == parse_opt_test(a, "B", script(o, "B"), c)
        cc == parse_opt_test(b, "C", script(o, "C"), c)
        d == parse_opt_test(cc, "D", script(o, "D"), c)
    IN  parse_opt_test(d, "E", script(o, "E"), c)

VARIABLES
    opts,         \* the parsed command line
    experiments,  \* ExperimentMap<Experiment>
    pc,           \* position in main / run_pair / run_test
    caller,       \* which call of run_pair is running: "ignore_first", "loop"
    indices,      \* run_pair: the order of this round
    i,            \* run_pair: position in indices
    test,         \* run_test: name of the experiment being run
    status,       \* run_test: wait4 result of the script, with its duration
    u,            \* run_test: index of the also_measure command
    children,     \* processes spawned and not yet waited for
    calc,         \* argument and result of the function under study
    ran,          \* history: experiments whose run_test this round entered
    events,       \* history: the steps of the latest run_test, in order
    message,      \* history: the also_measure of its "failed" line, as printed
    rounds,       \* history: run pairs started
    outcome,      \* history: how the latest run_test ended
    before,       \* history: experiments when the latest run_test started
    succ,         \* history: run_tests returned from line 221 since the clear
    rendered,     \* history: render_stats calls since the latest run pair
    cleared       \* history: executions of the clear at lines 322-326

vars == <<opts, experiments, pc, caller, indices, i, test, status, u,
          children, calc, ran, events, message,
          rounds, outcome, before, succ, rendered, cleared>>

NoStatus == [success |-> FALSE, duration |-> 0, maxrss |-> 0]
NoReport == [full |-> 0, short |-> 0]
NoCalc == [op |-> "none"]

\* main, lines 239-317
Init ==
    /\ opts \in Opts
    /\ experiments = new_experiments(opts)
    /\ pc = "main"
    /\ caller = "none"
    /\ indices = <<>>
    /\ i = 0
    /\ test = "A"
    /\ status = NoStatus
    /\ u = 0
    /\ children = {}
    /\ calc = NoCalc
    /\ ran = <<>>
    /\ events = <<>>
    /\ message = NoneOpt
    /\ rounds = 0
    /\ outcome = "none"
    /\ before = experiments
    /\ succ = [n \in opts.scripts |-> 0]
    /\ rendered = NoReport
    /\ cleared = 0

\* ------------------------------------------------------ external inputs
\* spawn_sh(..)?.wait4()? : an I/O error, or an exit status
WaitResults ==
    {[ok |-> FALSE, success |-> FALSE]} \cup [ok : {TRUE}, success : BOOLEAN]

\* the script's wait4 result and the elapsed time measured around it
ScriptResults ==
    [success : BOOLEAN, duration : Durations, maxrss : MaxRssValues]

\* run_sh(..)? : an I/O error, or an Output whose stdout is valid UTF-8 or
\* not and, trimmed, parses as a number or not
Outputs ==
    {[ok |-> FALSE, success |-> FALSE, utf8 |-> FALSE, parsed |-> NoneOpt]}
    \cup [ok : {TRUE}, success : BOOLEAN, utf8 : {TRUE},
          parsed : Option(UserValues)]
    \cup [ok : {TRUE}, success : BOOLEAN, utf8 : {FALSE}, parsed : {NoneOpt}]

\* ------------------------------------------------------- steps of the code
\* run_test, lines 167-168
TooLong(duration, max_time) ==
    max_time # NoneOpt /\ duration > max_time[1]

\* check_script with the samples recorded before the status is looked at
check_script_push_first(m, st, max_time) ==
    LET pushed == push(push(m, WallTime, st.duration), MaxRss, st.maxrss)
    IN  IF ~st.success
        THEN [outcome |-> "script_failed", measures |-> pushed]
        ELSE IF TooLong(st.duration, max_time)
        THEN [outcome |-> "too_long", measures |-> pushed]
        ELSE IF st.maxrss = 0
        THEN [outcome |-> "maxrss_unavailable", measures |-> m]
        ELSE [outcome |-> "running", measures |-> pushed]

\* check_script with maxrss looked at before the exit status and the time
check_script_maxrss_first(m, st, max_time) ==
    IF st.maxrss = 0
    THEN [outcome |-> "maxrss_unavailable", measures |-> m]
    ELSE IF ~st.success
    THEN [outcome |-> "script_failed", measures |-> m]
    ELSE IF TooLong(st.duration, max_time)
    THEN [outcome |-> "too_long", measures |-> m]
    ELSE [outcome |-> "running",
          measures |-> push(push(m, WallTime, st.duration), MaxRss, st.maxrss)]

\* check_script that records the wall time and no max rss
check_script_wall_time_only(m, st, max_time) ==
    IF ~st.success
    THEN [outcome |-> "script_failed", measures |-> m]
    ELSE IF TooLong(st.duration, max_time)
    THEN [outcome |-> "too_long", measures |-> m]
    ELSE IF st.maxrss = 0
    THEN [outcome |-> "maxrss_unavailable", measures |-> m]
    ELSE [outcome |-> "running", measures |-> push(m, WallTime, st.duration)]

\* run_test, lines 159-184: the checks after the script and the two pushes
check_script(m, st, max_time) ==
    IF ~st.success
    THEN [outcome |-> "script_failed", measures |-> m]
    ELSE IF TooLong(st.duration, max_time)
    THEN [outcome |-> "too_long", measures |-> m]
    ELSE IF st.maxrss = 0
    THEN [outcome |-> "maxrss_unavailable", measures |-> m]
    ELSE [outcome |-> "running",
          measures |-> push(push(m, WallTime, st.duration), MaxRss, st.maxrss)]

\* also_measure_step that stores the value at the command's own number
also_measure_step_no_offset(m, n, output) ==
    IF ~output.ok
    THEN [outcome |-> "io_error", measures |-> m]
    ELSE IF ~output.success
    THEN [outcome |-> "also_measure_failed", measures |-> m]
    ELSE IF ~output.utf8 \/ output.parsed = NoneOpt
    THEN [outcome |-> "unparseable", measures |-> m]
    ELSE [outcome |-> "running",
          measures |-> [m EXCEPT ![n] = Append(@, output.parsed[1])]]

\* run_test, lines 188-199: one also_measure command
also_measure_step(m, n, output) ==
    IF ~output.ok
    THEN [outcome |-> "io_error", measures |-> m]
    ELSE IF ~output.success
    THEN [outcome |-> "also_measure_failed", measures |-> m]
    ELSE IF ~output.utf8 \/ output.parsed = NoneOpt
    THEN [outcome |-> "unparseable", measures |-> m]
    ELSE [outcome |-> "running",
          measures |-> push(m, User(n), output.parsed[1])]

\* the run_test results that are returned as Err and end the program
Errors == {"io_error", "maxrss_unavailable", "unparseable"}

\* clear_all that forgets every sequence but the wall times
clear_wall_time_only(tests) ==
    [n \in DOMAIN tests |->
        [tests[n] EXCEPT !.measures[index(WallTime)] = <<>>]]

\* main, lines 322-326
clear_all(tests) ==
    [n \in DOMAIN tests |->
        [tests[n] EXCEPT !.measures = [k \in DOMAIN @ |-> <<>>]]]

\* main, line 386
min_count(tests) == MinOf({runs(tests[n]) : n \in DOMAIN tests})

\* loop_check that reports from the first sample on
loop_check_from_one(count, iterations) ==
    IF Some(count) = iterations THEN "done"
    ELSE IF count < 1 THEN "run_pair"
    ELSE "render_full"

\* loop_check without the test of lines 391-393
loop_check_no_gate(count, iterations) ==
    IF Some(count) = iterations THEN "done" ELSE "render_full"

\* main, lines 387-393: leave the loop, skip the report, or render it
loop_check(count, iterations) ==
    IF Some(count) = iterations THEN "done"
    ELSE IF count < 2 THEN "run_pair"
    ELSE "render_full"

\* main, lines 360-381: the measures of the report
measures(o) ==
    <<WallTime>> \o (IF o.mem THEN <<MaxRss>> ELSE <<>>)
        \o [j \in 1 .. Len(o.also_measure) |-> User(j - 1)]

\* ---------------------------------------------------------------- actions
\* main, lines 319-358: the first run pair is the ignored one, or the loop's
main_start ==
    /\ pc = "main"
    /\ pc' = "run_pair"
    /\ caller' = IF opts.ignore_first THEN "ignore_first" ELSE "loop"
    /\ UNCHANGED <<calc, message, children, ran, events,
                   opts, experiments, indices, i, test, status, u, rounds,
                   outcome, before, succ, rendered, cleared>>

\* run_pair, lines 229-232
run_pair_begin ==
    /\ pc = "run_pair"
    /\ rounds < MaxRounds
    /\ indices' \in (IF opts.random_order
                     THEN Shuffles(keys(experiments))
                     ELSE {keys(experiments)})
    /\ i' = 1
    /\ pc' = "for"
    /\ rounds' = rounds + 1
    /\ rendered' = NoReport
    /\ ran' = <<>>
    /\ events' = <<>>
    /\ UNCHANGED <<calc, message, opts, experiments, caller, test, status, u,
                   children, outcome, before, succ, cleared>>

\* run_pair, lines 233-234: the next experiment's run_test is entered
run_pair_next ==
    /\ pc = "for"
    /\ i <= Len(indices)
    /\ test' = indices[i]
    /\ pc' = "warmup"
    /\ outcome' = "running"
    /\ before' = experiments
    /\ ran' = Append(ran, indices[i])
    /\ events' = <<>>
    /\ message' = NoneOpt
    /\ UNCHANGED <<calc, opts, experiments, caller, indices, i, status, u,
                   children, rounds, succ, rendered, cleared>>

\* run_pair, lines 235-236: Ok(()) to the caller in main; the locals of
\* run_pair and the history of its last run_test end here
run_pair_return ==
    /\ pc = "for"
    /\ i > Len(indices)
    /\ pc' = IF caller = "ignore_first" THEN "clear" ELSE "check"
    /\ indices' = <<>>
    /\ i' = 0
    /\ test' = "A"
    /\ outcome' = "none"
    /\ before' = experiments
    /\ ran' = <<>>
    /\ events' = <<>>
    /\ message' = NoneOpt
    /\ UNCHANGED <<calc, opts, experiments, caller, status, u, children,
                   rounds, succ, rendered, cleared>>

\* run_test returns: Ok(()) goes on with the for loop, Err ends main
Return(result) ==
    /\ outcome' = result
    /\ pc' = IF result \in Errors THEN "aborted" ELSE "for"
    /\ i' = IF result \in Errors THEN i ELSE i + 1
    /\ status' = NoStatus
    /\ u' = 0

\* one step of run_test, with the number of the also_measure command
Event(e, n) == [e |-> e, n |-> n]

\* spawn_sh: the child runs from now on
spawn_sh(running, child) == running \cup {child}

\* wait4 that returns without the child having ended
wait4_no_wait(running, child) == running

\* Child::wait4: returns when the child has ended
wait4(running, child) == running \ {child}

\* run_test, lines 121-135: the warmup script is spawned
run_test_warmup ==
    /\ pc = "warmup"
    /\ \/ /\ Return("io_error")
          /\ events' = Append(events, Event("io_error", 0))
          /\ UNCHANGED children
       \/ /\ children' = spawn_sh(children, "warmup")
          /\ events' = Append(events, Event("spawn_warmup", 0))
          /\ pc' = "warmup_wait"
          /\ UNCHANGED <<i, status, u, outcome>>
    /\ UNCHANGED <<calc, message, opts, experiments, caller, indices, test, ran,
                   rounds, before, succ, rendered, cleared>>

\* run_test, lines 136-144: the warmup script is waited for
run_test_warmup_wait ==
    /\ pc = "warmup_wait"
    /\ \E w \in WaitResults :
          IF ~w.ok
          THEN /\ Return("io_error")
               /\ events' = Append(events, Event("io_error", 0))
               /\ UNCHANGED children
          ELSE /\ children' = wait4(children, "warmup")
               /\ IF ~w.success
                  THEN /\ Return("warmup_failed")
                       /\ events' = Append(events, Event("warmup_failed", 0))
                  ELSE /\ pc' = "script"
                       /\ events' = Append(events, Event("warmup_ok", 0))
                       /\ UNCHANGED <<i, status, u, outcome>>
    /\ UNCHANGED <<calc, message, opts, experiments, caller, indices, test, ran,
                   rounds, before, succ, rendered, cleared>>

\* run_test, lines 146-154: the script is spawned
run_test_script ==
    /\ pc = "script"
    /\ \/ /\ Return("io_error")
          /\ events' = Append(events, Event("io_error", 0))
          /\ UNCHANGED children
       \/ /\ children' = spawn_sh(children, "script")
          /\ events' = Append(events, Event("spawn_script", 0))
          /\ pc' = "script_wait"
          /\ UNCHANGED <<i, status, u, outcome>>
    /\ UNCHANGED <<calc, message, opts, experiments, caller, indices, test, ran,
                   rounds, before, succ, rendered, cleared>>

\* run_test, lines 155-157: the script is waited for and its time taken
run_test_script_wait ==
    /\ pc = "script_wait"
    /\ \/ /\ Return("io_error")
          /\ events' = Append(events, Event("io_error", 0))
          /\ UNCHANGED children
       \/ \E st \in ScriptResults :
             /\ children' = wait4(children, "script")
             /\ status' = st
             /\ events' = Append(events, Event("script_exited", 0))
             /\ pc' = "script_done"
             /\ UNCHANGED <<i, u, outcome>>
    /\ UNCHANGED <<calc, message, opts, experiments, caller, indices, test, ran,
                   rounds, before, succ, rendered, cleared>>

\* run_test, lines 159-186
run_test_check ==
    /\ pc = "script_done"
    /\ LET r == check_script(experiments[test].measures, status,
                             opts.max_time)
       IN  /\ experiments' = [experiments EXCEPT ![test].measures = r.measures]
           /\ IF r.outcome = "running"
              THEN /\ pc' = "also_measure"
                   /\ u' = 0
                   /\ events' = Append(events, Event("pushed", 0))
                   /\ UNCHANGED <<i, status, outcome>>
              ELSE /\ Return(r.outcome)
                   /\ events' = Append(events, Event(r.outcome, 0))
    /\ UNCHANGED <<calc, message, opts, caller, indices, test, children, ran,
                   rounds, before, succ, rendered, cleared>>

\* run_test, lines 187-210: one pass of the loop over opts.also_measure;
\* run_sh spawns the command and waits for it in one call
run_test_also_measure ==
    /\ pc = "also_measure"
    /\ u < Len(opts.also_measure)
    /\ \E output \in Outputs :
          LET r == also_measure_step(experiments[test].measures, u, output)
          IN  /\ experiments' =
                     [experiments EXCEPT ![test].measures = r.measures]
              /\ message' = IF r.outcome = "also_measure_failed"
                            THEN Some(fmt(opts.also_measure[u + 1]))
                            ELSE message
              /\ IF r.outcome = "running"
                 THEN /\ u' = u + 1
                      /\ events' = Append(events, Event("also_measure_ok", u))
                      /\ UNCHANGED <<pc, i, status, outcome>>
                 ELSE /\ Return(r.outcome)
                      /\ events' = Append(events, Event(r.outcome, u))
    /\ UNCHANGED <<calc, opts, caller, indices, test, children, ran, rounds,
                   before, succ, rendered, cleared>>

\* run_test, lines 212-221
run_test_finish ==
    /\ pc = "also_measure"
    /\ u = Len(opts.also_measure)
    /\ Return("ok")
    /\ succ' = [succ EXCEPT ![test] = @ + 1]
    /\ events' = Append(events, Event("ok", 0))
    /\ UNCHANGED <<calc, message, opts, experiments, caller, indices, test,
                   children, ran, rounds, before, rendered, cleared>>

\* main, lines 322-337, then the loop is entered
main_clear ==
    /\ pc = "clear"
    /\ experiments' = clear_all(experiments)
    /\ succ' = [n \in DOMAIN succ |-> 0]
    /\ cleared' = cleared + 1
    /\ caller' = "loop"
    /\ pc' = "run_pair"
    /\ UNCHANGED <<calc, message, children, ran, events,
                   opts, indices, i, test, status, u, rounds, outcome,
                   before, rendered>>

\* main, lines 386-393
main_check ==
    /\ pc = "check"
    /\ pc' = loop_check(min_count(experiments), opts.iterations)
    /\ UNCHANGED <<calc, message, children, ran, events,
                   opts, experiments, caller, indices, i, test, status, u,
                   rounds, outcome, before, succ, rendered, cleared>>

\* main, line 397
render_full ==
    /\ pc = "render_full"
    /\ rendered' = [rendered EXCEPT !.full = @ + 1]
    /\ pc' = "render_short"
    /\ UNCHANGED <<calc, message, children, ran, events,
                   opts, experiments, caller, indices, i, test, status, u,
                   rounds, outcome, before, succ, cleared>>

\* main, line 398
render_short ==
    /\ pc = "render_short"
    /\ rendered' = [rendered EXCEPT !.short = @ + 1]
    /\ pc' = "write"
    /\ UNCHANGED <<calc, message, children, ran, events,
                   opts, experiments, caller, indices, i, test, status, u,
                   rounds, outcome, before, succ, cleared>>

\* write_report that takes the samples out of the sequences as it writes them
write_report_draining ==
    /\ pc = "write"
    /\ pc' = "run_pair"
    /\ experiments' = clear_all(experiments)
    /\ UNCHANGED <<calc, message, children, ran, events,
                   opts, caller, indices, i, test, status, u,
                   rounds, outcome, before, succ, rendered, cleared>>

\* main, lines 400-405, then the next pass of the loop
write_report ==
    /\ pc = "write"
    /\ pc' = "run_pair"
    /\ UNCHANGED <<calc, message, children, ran, events,
                   opts, experiments, caller, indices, i, test, status, u,
                   rounds, outcome, before, succ, rendered, cleared>>

Next ==
    \/ main_start
    \/ run_pair_begin
    \/ run_pair_next
    \/ run_pair_return
    \/ run_test_warmup
    \/ run_test_warmup_wait
    \/ run_test_script
    \/ run_test_script_wait
    \/ run_test_check
    \/ run_test_also_measure
    \/ run_test_finish
    \/ main_clear
    \/ main_check
    \/ render_full
    \/ render_short
    \/ write_report

Spec == Init /\ [][Next]_vars

\* ------------------------------------------- the --also-measure argument
\* the command lines "absh -a A -i --also-measure <s>", before Opts::parse
Strings == UNION {[1 .. n -> Chars] : n \in 0 .. MaxSpecLen}

InitArgs ==
    /\ calc \in {[op |-> "also_measure", input |-> s] : s \in Strings}
    /\ opts = [scripts |-> {"A"}, random_order |-> FALSE,
               ignore_first |-> TRUE, iterations |-> NoneOpt, mem |-> FALSE,
               also_measure |-> <<>>, max_time |-> NoneOpt]
    /\ experiments = NoExperiments
    /\ pc = "parse"
    /\ caller = "none"
    /\ indices = <<>>
    /\ i = 0
    /\ test = "A"
    /\ status = NoStatus
    /\ u = 0
    /\ children = {}
    /\ ran = <<>>
    /\ events = <<>>
    /\ message = NoneOpt
    /\ rounds = 0
    /\ outcome = "none"
    /\ before = experiments
    /\ succ = [n \in {} |-> 0]
    /\ rendered = NoReport
    /\ cleared = 0

\* main, line 240: Opts::parse gives the argument to AlsoMeasure::from_str
\* and ends the program with a usage error when that returns Err
parse_args ==
    /\ pc = "parse"
    /\ LET r == from_str(calc.input)
       IN  IF r.ok
           THEN /\ opts' = [opts EXCEPT !.also_measure = <<r.value>>]
                /\ pc' = "setup"
           ELSE /\ opts' = opts
                /\ pc' = "rejected"
    /\ UNCHANGED <<calc, message, children, ran, events, experiments, caller,
                   indices, i, test, status, u, rounds, outcome, before,
                   succ, rendered, cleared>>

\* main, lines 242-317: the experiments are built
main_setup ==
    /\ pc = "setup"
    /\ experiments' = new_experiments(opts)
    /\ before' = experiments'
    /\ succ' = [n \in DOMAIN experiments' |-> 0]
    /\ pc' = "main"
    /\ UNCHANGED <<calc, message, children, ran, events, opts, caller,
                   indices, i, test, status, u, rounds, outcome, rendered,
                   cleared>>

NextArgs ==
    \/ parse_args
    \/ main_setup
    \/ Next

SpecArgs == InitArgs /\ [][NextArgs]_vars

\* ---------------------------------------------------------------- MemUsage
from_bytes(bytes) == [bytes |-> bytes]

\* u64::checked_sub
checked_sub(a, b) == IF b > a THEN NoneOpt ELSE Some(a - b)

\* a subtraction that stops at zero
sub_saturating(a, b) ==
    Ok(from_bytes(IF b.bytes > a.bytes THEN 0 ELSE a.bytes - b.bytes))

\* MemUsage::sub: unwrap panics on None
sub(a, b) ==
    LET r == checked_sub(a.bytes, b.bytes)
    IN  IF r = NoneOpt THEN Err("panic") ELSE Ok(from_bytes(r[1]))

\* MemUsage::mib
mib(m) == shr(m.bytes, 20)

\* byte counts around the multiples of 2^20
Bytes ==
    {0, 1, Pow2(20) - 1, Pow2(20), Pow2(20) + 1, 2 * Pow2(20) - 1,
     3 * Pow2(20) + 5}

\* ------------------------------------- the functions taken one at a time
Keys == {WallTime, MaxRss} \cup {User(n) : n \in 0 .. UsizeMax}

\* a function's argument, its result once it has been applied, and for a
\* MeasureKey conversion the result of converting back
Calls ==
    {[op |-> "index", arg |-> k, result |-> NoneOpt, back |-> NoneOpt] :
        k \in Keys}
    \cup {[op |-> "from_index", arg |-> n, result |-> NoneOpt,
            back |-> NoneOpt] : n \in 0 .. UsizeMax}
    \cup {[op |-> "sub", arg |-> <<from_bytes(a), from_bytes(b)>>,
            result |-> NoneOpt] : a, b \in Bytes}
    \cup {[op |-> "mib", arg |-> from_bytes(a), result |-> NoneOpt] :
            a \in Bytes}

\* the command lines "absh -a A [-b B] [-c C] [-d D] [-e E] [-r]"
SetupOpts ==
    [scripts : {{"A"} \cup given : given \in SUBSET {"B", "C", "D", "E"}},
     random_order : BOOLEAN,
     ignore_first : {FALSE},
     iterations : {NoneOpt},
     mem : {FALSE},
     also_measure : {<<>>},
     max_time : {NoneOpt}]

InitFn ==
    /\ \/ /\ calc \in Calls
          /\ opts \in {o \in SetupOpts : o.scripts = {"A"} /\ ~o.random_order}
          /\ pc = "call"
       \/ /\ calc = [op |-> "setup"]
          /\ opts \in SetupOpts
          /\ pc = "setup"
    /\ experiments = NoExperiments
    /\ caller = "none"
    /\ indices = <<>>
    /\ i = 0
    /\ test = "A"
    /\ status = NoStatus
    /\ u = 0
    /\ children = {}
    /\ ran = <<>>
    /\ events = <<>>
    /\ message = NoneOpt
    /\ rounds = 0
    /\ outcome = "none"
    /\ before = experiments
    /\ succ = [n \in {} |-> 0]
    /\ rendered = NoReport
    /\ cleared = 0

Main == <<opts, experiments, pc, caller, indices, i, test, status, u,
          children, ran, events, message, rounds, outcome, before, succ,
          rendered, cleared>>

\* what MeasureKey::index returns, or the panic of the checked sum
index_results(k) ==
    IF index_overflows(k) THEN {Err("panic"), Ok(index(k))} ELSE {Ok(index(k))}

\* MeasureKey::index is applied to a key, or to the key from_index gave
key_index ==
    /\ pc = "call"
    /\ \/ /\ calc.op = "index"
          /\ calc.result = NoneOpt
          /\ \E r \in index_results(calc.arg) :
                calc' = [calc EXCEPT !.result = Some(r)]
       \/ /\ calc.op = "from_index"
          /\ calc.result # NoneOpt
          /\ calc.back = NoneOpt
          /\ \E r \in index_results(calc.result[1].value) :
                calc' = [calc EXCEPT !.back = Some(r)]
    /\ UNCHANGED Main

\* MeasureKey::from_index is applied to an index, or to the one index gave
key_from_index ==
    /\ pc = "call"
    /\ \/ /\ calc.op = "from_index"
          /\ calc.result = NoneOpt
          /\ calc' = [calc EXCEPT !.result = Some(Ok(from_index(calc.arg)))]
       \/ /\ calc.op = "index"
          /\ calc.result # NoneOpt
          /\ calc.result[1].ok
          /\ calc.back = NoneOpt
          /\ calc' = [calc EXCEPT
                         !.back = Some(Ok(from_index(calc.result[1].value)))]
    /\ UNCHANGED Main

\* a - b
mem_sub ==
    /\ pc = "call"
    /\ calc.op = "sub"
    /\ calc.result = NoneOpt
    /\ calc' = [calc EXCEPT !.result = Some(sub(calc.arg[1], calc.arg[2]))]
    /\ UNCHANGED Main

\* a.mib()
mem_mib ==
    /\ pc = "call"
    /\ calc.op = "mib"
    /\ calc.result = NoneOpt
    /\ calc' = [calc EXCEPT !.result = Some(Ok(mib(calc.arg)))]
    /\ UNCHANGED Main

NextFn ==
    \/ key_index
    \/ key_from_index
    \/ mem_sub
    \/ mem_mib
    \/ main_setup
    \/ main_start
    \/ run_pair_begin

SpecFn == InitFn /\ [][NextFn]_vars

\* ----------------------------------------------------------------- claims
IsPrefix(a, b) == Len(a) <= Len(b) /\ SubSeq(b, 1, Len(a)) = a

\* the sequences of measures m, as their lengths
Lens(m) == [k \in DOMAIN m |-> Len(m[k])]

SomeSample(tests) ==
    \E n \in DOMAIN tests : \E k \in DOMAIN tests[n].measures :
        tests[n].measures[k] # <<>>

AllEmpty(tests) ==
    \A n \in DOMAIN tests : \A k \in DOMAIN tests[n].measures :
        tests[n].measures[k] = <<>>

\* each sequence of new is the sequence of old, possibly with samples appended
Extends(old, new) ==
    \A n \in DOMAIN old : \A k \in DOMAIN old[n].measures :
        IsPrefix(old[n].measures[k], new[n].measures[k])

\* the sequences of experiment n that the report covers
Reported(n) ==
    {experiments[n].measures[index(measures(opts)[j])] :
        j \in 1 .. Len(measures(opts))}

Rendering == {"render_full", "render_short", "write"}

\* main is not inside a run_test and has not ended with an error
BetweenRuns ==
    {"main", "run_pair", "for", "clear", "check", "done"} \cup Rendering

MinSucc == MinOf({succ[n] : n \in DOMAIN succ})

\* passes of the loop at lines 383-406 whose run pair has been started
LoopRounds == rounds - cleared

\* C1: a run that ends with a failed warmup, a failed script or a script
\* over max_time appends no sample to any sequence of any experiment, does
\* not end the program, and leaves the for loop of run_pair at the next
\* experiment.
C1_SoftFailureRecordsNothing ==
    outcome \in {"warmup_failed", "script_failed", "too_long"} =>
        /\ experiments = before
        /\ pc = "for"
        /\ i - 1 \in 1 .. Len(indices)
        /\ indices[i - 1] = test

\* a soft failure after samples were recorded, with an experiment still to run
C1_Witness ==
    /\ outcome \in {"script_failed", "too_long"}
    /\ SomeSample(before)
    /\ i <= Len(indices)

\* C2: after a run in which an also_measure command exited non-zero, every
\* sequence of the experiment has the length it had before the run, and
\* the loop continues.
C2_AlsoMeasureFailureRecordsNothing ==
    outcome = "also_measure_failed" =>
        /\ Lens(experiments[test].measures) = Lens(before[test].measures)
        /\ pc = "for"

\* C3: after a run in which an also_measure command succeeded with output
\* that is not UTF-8 or not a number, the program has not aborted and the
\* experiment's sequences are as before the run.
C3_UnparseableIsSoftFailure ==
    outcome = "unparseable" =>
        /\ pc # "aborted"
        /\ experiments[test].measures = before[test].measures

\* C4: between two runs all sequences of an experiment have the same
\* length, the number of its successful runs since the clear.
C4_EqualLengths ==
    pc \in BetweenRuns =>
        \A n \in DOMAIN experiments : \A k \in DOMAIN experiments[n].measures :
            Len(experiments[n].measures[k]) = succ[n]

C7_ReportAfterEveryRound ==
    (/\ pc \in {"run_pair", "done"}
     /\ caller = "loop"
     /\ LoopRounds >= 1
     /\ \A n \in DOMAIN experiments : runs(experiments[n]) >= 2)
        => rendered = [full |-> 1, short |-> 1]

\* C8: without -n the loop never exits; with -n n it exits only when every
\* experiment has n successful runs, and for every n >= 0 it does not go on
\* once a pass has ended with every experiment at n successful runs or more.
C8_StopsAfterNIterations ==
    /\ opts.iterations = NoneOpt => pc # "done"
    /\ (opts.iterations # NoneOpt /\ pc = "done")
           => MinSucc = opts.iterations[1]
    /\ (/\ opts.iterations # NoneOpt
        /\ caller = "loop"
        /\ LoopRounds >= 1
        /\ pc \in {"run_pair"} \cup Rendering)
           => MinSucc < opts.iterations[1]

\* C9: maxrss = 0 for a script that succeeded within the time limit ends
\* the program with no sample recorded, and nothing runs afterwards; a
\* script that failed or took too long does not end it, whatever maxrss.
C9_HardFailureAborts ==
    [][/\ pc # "aborted"
       /\ pc = "script_done" =>
             IF /\ status.success
                /\ ~TooLong(status.duration, opts.max_time)
                /\ status.maxrss = 0
             THEN pc' = "aborted" /\ experiments' = experiments
             ELSE pc' # "aborted"]_vars

\* the program has ended on maxrss = 0 with samples recorded and an
\* experiment of the round not yet run
C9_Witness ==
    /\ pc = "aborted"
    /\ outcome = "maxrss_unavailable"
    /\ SomeSample(experiments)
    /\ i < Len(indices)

C11_RoundRunsEachOnce ==
    /\ Cardinality(children) <= 1
    /\ pc \in {"for", "warmup"} => children = {}
    /\ (pc = "for" /\ i > Len(indices)) =>
          /\ Len(ran) = Cardinality(DOMAIN experiments)
          /\ {ran[j] : j \in 1 .. Len(ran)} = DOMAIN experiments
          /\ ~opts.random_order => ran = keys(experiments)

\* a round of two experiments has completed in the order B, A
C11_Witness ==
    /\ pc = "for"
    /\ i > Len(indices)
    /\ opts.random_order
    /\ ran = <<"B", "A">>

\* C12: from the end of a round to the start of the next, the exit test,
\* the two renderings and the writing leave every sequence as it is, and
\* they run with no child process and outside any run_test.
C12_ReportLeavesSamples ==
    [][(pc \in {"check"} \cup Rendering) =>
          (/\ experiments' = experiments
           /\ children = {}
           /\ children' = {}
           /\ pc' \in (Rendering \cup {"run_pair", "done"}))]_vars

\* both reports have been rendered from recorded samples, the data is to be
\* written
C12_Witness ==
    /\ pc = "write"
    /\ rendered = [full |-> 1, short |-> 1]
    /\ SomeSample(experiments)
    /\ Cardinality(DOMAIN experiments) = 2

\* the first three ":" of a string
Colons(s) == {j \in 1 .. Len(s) : s[j] = ":"}
Colon(s, n) ==
    CHOOSE j \in Colons(s) : Cardinality({k \in Colons(s) : k <= j}) = n
Field2(s) == SubSeq(s, Colon(s, 1) + 1, Colon(s, 2) - 1)
Malformed(s) ==
    \/ Cardinality(Colons(s)) < 3
    \/ Field2(s) \notin {<<"0">>, <<"1">>}

\* C13: the "also_measure ... failed" line prints the parsed specification
\* with Display, and what it prints is the string that from_str accepted.
C13_RoundTrip ==
    (calc.op = "also_measure" /\ message # NoneOpt) =>
        message[1] = calc.input

\* C14: a malformed specification (fewer than three ":", or an is_size
\* other than "0" or "1") ends the program in argument parsing: no process
\* was spawned, no round was begun, no experiment and no sample exists and
\* nothing follows.  A well-formed one is accepted, and its fields are what
\* lies between its first three ":", the command being all that follows
\* the third, further ":" included.
C14_MalformedRejectedEarly ==
    (calc.op = "also_measure" /\ pc # "parse") =>
        LET s == calc.input
        IN  /\ pc = "rejected" <=> Malformed(s)
            /\ pc = "rejected" =>
                  /\ children = {}
                  /\ rounds = 0
                  /\ events = <<>>
                  /\ experiments = NoExperiments
                  /\ ~ENABLED NextArgs
            /\ pc # "rejected" =>
                  /\ Len(opts.also_measure) = 1
                  /\ opts.also_measure[1] =
                        [id |-> SubSeq(s, 1, Colon(s, 1) - 1),
                         is_size |-> (Field2(s) = <<"1">>),
                         name |-> SubSeq(s, Colon(s, 2) + 1, Colon(s, 3) - 1),
                         cmd |-> SubSeq(s, Colon(s, 3) + 1, Len(s))]
C14_Witness ==
    /\ calc.op = "also_measure"
    /\ pc = "rejected"
    /\ Cardinality(Colons(calc.input)) >= 3

C18_MinCountWithinN ==
    /\ \A n \in DOMAIN experiments :
          runs(experiments[n]) <= rounds - cleared
    /\ (opts.iterations # NoneOpt /\ opts.iterations[1] >= 1) =>
          min_count(experiments) <= opts.iterations[1]
C18_Witness ==
    /\ pc = "check"
    /\ opts.iterations = Some(1)
    /\ runs(experiments["A"]) = 2
    /\ runs(experiments["B"]) = 0

\* the step that has to come directly before step j of a run
Needs(j) ==
    LET e == events[j].e
        n == events[j].n
    IN  IF e = "spawn_warmup" THEN {}
        ELSE IF e \in {"warmup_ok", "warmup_failed"}
        THEN {Event("spawn_warmup", 0)}
        ELSE IF e = "spawn_script" THEN {Event("warmup_ok", 0)}
        ELSE IF e = "script_exited" THEN {Event("spawn_script", 0)}
        ELSE IF e \in {"pushed", "script_failed", "too_long",
                       "maxrss_unavailable"}
        THEN {Event("script_exited", 0)}
        ELSE IF e \in {"also_measure_ok", "also_measure_failed",
                       "unparseable"}
        THEN {IF n = 0 THEN Event("pushed", 0)
              ELSE Event("also_measure_ok", n - 1)}
        ELSE IF e = "ok"
        THEN {IF opts.also_measure = <<>> THEN Event("pushed", 0)
              ELSE Event("also_measure_ok", Len(opts.also_measure) - 1)}
        ELSE {events[j - 1]}

\* the number of samples the steps of the run have stored under key index k
Stored(k) ==
    IF k < 2
    THEN Cardinality({j \in DOMAIN events : events[j].e = "pushed"})
    ELSE Cardinality({j \in DOMAIN events :
                         events[j] = Event("also_measure_ok", k - 2)})

Iterated == {indices[j] : j \in DOMAIN indices}

\* C16 as stated: the for loop of run_pair goes over two to five experiments.
C16_TwoToFive ==
    pc = "for" => Cardinality(Iterated) \in 2 .. 5

\* C16, amended: the for loop of run_pair goes over one to five experiments,
\* each once: A, and each of B .. E whose script is given.
C16_OneToFive ==
    (calc.op = "setup" /\ pc = "for") =>
        /\ Cardinality(Iterated) \in 1 .. 5
        /\ Len(indices) = Cardinality(Iterated)
        /\ Iterated = opts.scripts
        /\ "A" \in Iterated
C16_Witness ==
    /\ calc.op = "setup"
    /\ pc = "for"
    /\ indices = <<"A">>

\* C20: a - b panics when b > a, and otherwise is the r with r + b = a;
\* mib() is the q with q * 2^20 <= bytes < (q + 1) * 2^20.
C20_SubAndMib ==
    /\ (calc.op = "sub" /\ calc.result # NoneOpt) =>
          LET a == calc.arg[1].bytes
              b == calc.arg[2].bytes
              r == calc.result[1]
          IN  IF b > a
              THEN r = Err("panic")
              ELSE /\ r.ok
                   /\ r.value.bytes \in Nat
                   /\ r.value.bytes + b = a
    /\ (calc.op = "mib" /\ calc.result # NoneOpt) =>
          LET q == calc.result[1].value
          IN  /\ q * Pow2(20) <= calc.arg.bytes
              /\ calc.arg.bytes < (q + 1) * Pow2(20)
C20_Witness ==
    /\ calc.op = "sub"
    /\ calc.arg[2].bytes > calc.arg[1].bytes
    /\ calc.result = Some(Err("panic"))

====
